---------------------------- MODULE Spec2Model ----------------------------
(***************************************************************************)
(* Model of struct BigInt (src/Main.cpp): a sign-magnitude integer whose   *)
(* magnitude is a little-endian vector of machine words.                   *)
(*                                                                         *)
(* The source uses 32-bit words with 64-bit intermediates.  The model      *)
(* keeps every % 2^w and every carry of the source but takes the word      *)
(* width w from WordBits, so that the products of two words stay inside    *)
(* the integers the model checker can represent.  WordBits must be at      *)
(* least 4: the string constructor multiplies by the one-word value 10.    *)
(***************************************************************************)
EXTENDS Integers, Sequences, FiniteSets

WordBits == 4
MaxWords == 4
MaxOps == 2
StackDepth == 6

Base == 2 ^ WordBits
Word == 0 .. Base - 1
WordMax == Base - 1

Max(x, y) == IF x >= y THEN x ELSE y
Min(x, y) == IF x <= y THEN x ELSE y
Back(d) == d[Len(d)]

RECURSIVE Zeros(_)
Zeros(k) == IF k <= 0 THEN << >> ELSE Append(Zeros(k - 1), 0)

---------------------------------------------------------------------------
(* Constructors *)

\* BigInt() : negative(false) {}
BigIntDefault == [digits |-> << >>, negative |-> FALSE]

\* BigInt(int value)
BigIntInt(value) ==
    LET v == IF value < 0 THEN -value ELSE value
    IN  [digits   |-> IF v # 0 THEN << v % Base >> ELSE << >>,
         negative |-> value < 0]

\* BigInt(uint32_t value)
BigIntUint32(value) ==
    [digits |-> IF value # 0 THEN << value % Base >> ELSE << >>, negative |-> FALSE]

\* BigInt(int64_t value)
BigIntInt64(value) ==
    LET v == IF value < 0 THEN -value ELSE value
    IN  [digits   |-> IF v # 0
                      THEN << v % Base >> \o
                           (IF v > WordMax THEN << (v \div Base) % Base >> ELSE << >>)
                      ELSE << >>,
         negative |-> value < 0]

---------------------------------------------------------------------------
(* Helper functions *)

RECURSIVE PopZeros(_)
PopZeros(d) ==
    IF Len(d) > 1 /\ Back(d) = 0 THEN PopZeros(SubSeq(d, 1, Len(d) - 1)) ELSE d

trim(x) ==
    LET d == PopZeros(x.digits)
    IN  [digits   |-> d,
         negative |-> IF Len(d) = 1 /\ d[1] = 0 THEN FALSE ELSE x.negative]

isZero(x) == x.digits = << >> \/ (Len(x.digits) = 1 /\ x.digits[1] = 0)

abs(x) == [x EXCEPT !.negative = FALSE]

---------------------------------------------------------------------------
(* Comparison operators *)

RECURSIVE LessFrom(_, _, _)
LessFrom(x, y, k) ==
    IF k = 0 THEN FALSE
    ELSE IF x.digits[k] # y.digits[k]
         THEN IF x.negative THEN x.digits[k] > y.digits[k]
                            ELSE x.digits[k] < y.digits[k]
         ELSE LessFrom(x, y, k - 1)

\* operator<
OpLess(x, y) ==
    IF x.negative # y.negative THEN x.negative
    ELSE IF Len(x.digits) # Len(y.digits)
         THEN IF x.negative THEN Len(x.digits) > Len(y.digits)
                            ELSE Len(x.digits) < Len(y.digits)
         ELSE LessFrom(x, y, Len(x.digits))

\* operator>=
OpGreaterEq(x, y) == ~OpLess(x, y)

\* operator==
OpEq(x, y) == x.negative = y.negative /\ x.digits = y.digits

---------------------------------------------------------------------------
(* Unary minus, addition, subtraction *)

\* operator-() const
Negate(x) == IF ~isZero(x) THEN [x EXCEPT !.negative = ~x.negative] ELSE x

RECURSIVE AddLoop(_, _, _, _, _)
AddLoop(xd, yd, i, carry, acc) ==
    IF ~(i < Max(Len(xd), Len(yd)) \/ carry # 0) THEN acc
    ELSE LET sum == carry + (IF i < Len(xd) THEN xd[i + 1] ELSE 0)
                          + (IF i < Len(yd) THEN yd[i + 1] ELSE 0)
         IN  AddLoop(xd, yd, i + 1, sum \div Base, Append(acc, sum % Base))

\* operator+, the branch negative == other.negative
AddSameSign(x, y) ==
    [digits |-> AddLoop(x.digits, y.digits, 0, 0, << >>), negative |-> x.negative]

RECURSIVE SubLoop(_, _, _, _, _)
SubLoop(xd, yd, i, borrow, acc) ==
    IF ~(i < Len(xd)) THEN acc
    ELSE LET d0   == xd[i + 1] - borrow - (IF i < Len(yd) THEN yd[i + 1] ELSE 0)
             diff == IF d0 < 0 THEN d0 + Base ELSE d0
         IN  SubLoop(xd, yd, i + 1, IF d0 < 0 THEN 1 ELSE 0, Append(acc, diff % Base))

\* operator-, the branch abs() >= other.abs() of equal signs
SubSameSign(x, y) ==
    trim([digits |-> SubLoop(x.digits, y.digits, 0, 0, << >>), negative |-> x.negative])

(***************************************************************************)
(* An activation of operator+ or operator-: the operator, its operands and *)
(* the number of unary minus applications that wait for its result (the    *)
(* pending -(other - *this) of the callers).                               *)
(***************************************************************************)
Call(op, x, y) == [op |-> op, x |-> x, y |-> y, negs |-> 0]

NoCall == Call("none", BigIntDefault, BigIntDefault)

\* The activation computes its result itself (no further call of + or -).
IsDirect(f) ==
    IF f.op = "+" THEN f.x.negative = f.y.negative
    ELSE f.x.negative = f.y.negative /\ OpGreaterEq(abs(f.x), abs(f.y))

\* The call the activation delegates to.
Delegate(f) ==
    IF f.op = "+"
    THEN [op |-> "-", x |-> f.x, y |-> Negate(f.y), negs |-> f.negs]
    ELSE IF f.x.negative # f.y.negative
         THEN [op |-> "+", x |-> f.x, y |-> Negate(f.y), negs |-> f.negs]
         ELSE [op |-> "-", x |-> f.y, y |-> f.x, negs |-> f.negs + 1]

RECURSIVE NegateTimes(_, _)
NegateTimes(x, k) == IF k = 0 THEN x ELSE NegateTimes(Negate(x), k - 1)

DirectResult(f) ==
    NegateTimes(IF f.op = "+" THEN AddSameSign(f.x, f.y) ELSE SubSameSign(f.x, f.y),
                f.negs)

(***************************************************************************)
(* A nested use of + or - (inside the string constructor, inside divmod):  *)
(* the chain of delegations run to its end on a call stack of StackDepth   *)
(* frames.  ret = FALSE: the stack is exhausted and the process dies.      *)
(***************************************************************************)
RECURSIVE Eval(_, _)
Eval(f, depth) ==
    IF IsDirect(f) THEN [ret |-> TRUE, val |-> DirectResult(f)]
    ELSE IF depth = 0 THEN [ret |-> FALSE, val |-> BigIntDefault]
    ELSE Eval(Delegate(f), depth - 1)

OpAdd(x, y) == Eval(Call("+", x, y), StackDepth)
OpSub(x, y) == Eval(Call("-", x, y), StackDepth)

---------------------------------------------------------------------------
(* Multiplication *)

RECURSIVE MulInner(_, _, _, _, _, _)
MulInner(res, xi, yd, i, j, carry) ==
    IF ~(j < Len(yd) \/ carry # 0) THEN res
    ELSE LET sum == res[i + j + 1] + xi * (IF j < Len(yd) THEN yd[j + 1] ELSE 0) + carry
         IN  MulInner([res EXCEPT ![i + j + 1] = sum % Base], xi, yd, i, j + 1,
                      sum \div Base)

RECURSIVE MulOuter(_, _, _, _)
MulOuter(res, xd, yd, i) ==
    IF ~(i < Len(xd)) THEN res
    ELSE MulOuter(MulInner(res, xd[i + 1], yd, i, 0, 0), xd, yd, i + 1)

\* operator*
OpMul(x, y) ==
    trim([digits   |-> MulOuter(Zeros(Len(x.digits) + Len(y.digits)),
                                x.digits, y.digits, 0),
          negative |-> x.negative # y.negative])

---------------------------------------------------------------------------
(* Bitwise AND, OR *)

RECURSIVE BitAnd(_, _)
BitAnd(u, v) ==
    IF u = 0 \/ v = 0 THEN 0
    ELSE (u % 2) * (v % 2) + 2 * BitAnd(u \div 2, v \div 2)

RECURSIVE BitOr(_, _)
BitOr(u, v) ==
    IF u = 0 THEN v ELSE IF v = 0 THEN u
    ELSE Max(u % 2, v % 2) + 2 * BitOr(u \div 2, v \div 2)

\* operator&
OpAnd(x, y) ==
    trim([digits   |-> [k \in 1 .. Min(Len(x.digits), Len(y.digits)) |->
                            BitAnd(x.digits[k], y.digits[k])],
          negative |-> FALSE])

\* operator|
OpOr(x, y) ==
    trim([digits   |-> [k \in 1 .. Max(Len(x.digits), Len(y.digits)) |->
                            BitOr(IF k <= Len(x.digits) THEN x.digits[k] ELSE 0,
                                  IF k <= Len(y.digits) THEN y.digits[k] ELSE 0)],
          negative |-> FALSE])

---------------------------------------------------------------------------
(* Shift operators *)

\* The loop of operator<<(int); (d << bit_shift) | carry is a sum, the
\* carry being less than 2^bit_shift.
RECURSIVE ShlLoop(_, _, _, _)
ShlLoop(d, i, bit_shift, carry) ==
    IF ~(i < Len(d))
    THEN IF carry # 0 THEN Append(d, carry % Base) ELSE d
    ELSE LET current == d[i + 1] * (2 ^ bit_shift) + carry
         IN  ShlLoop([d EXCEPT ![i + 1] = current % Base], i + 1, bit_shift,
                     current \div Base)

\* operator<<(int shift)
OpShl(x, shift) ==
    IF isZero(x) \/ shift = 0 THEN x
    ELSE LET word_shift == shift \div WordBits
             bit_shift  == shift % WordBits
         IN  trim([x EXCEPT !.digits =
                     ShlLoop(Zeros(word_shift) \o x.digits, word_shift, bit_shift, 0)])

RECURSIVE ShrLoop(_, _, _, _)
ShrLoop(d, i, bit_shift, carry) ==
    IF ~(i >= 0) THEN d
    ELSE LET current == carry * Base + d[i + 1]
         IN  ShrLoop([d EXCEPT ![i + 1] = (current \div (2 ^ bit_shift)) % Base],
                     i - 1, bit_shift, current % (2 ^ bit_shift))

\* operator>>(int shift)
OpShr(x, shift) ==
    IF isZero(x) \/ shift = 0 THEN x
    ELSE LET word_shift == shift \div WordBits
             bit_shift  == shift % WordBits
         IN  IF word_shift >= Len(x.digits) THEN BigIntInt(0)
             ELSE LET d == SubSeq(x.digits, word_shift + 1, Len(x.digits))
                  IN  trim([x EXCEPT !.digits = ShrLoop(d, Len(d) - 1, bit_shift, 0)])

---------------------------------------------------------------------------
(* Input and output *)

\* A character is written as a one-character string; a std::string is a
\* sequence of characters.
DecimalChars == << "0", "1", "2", "3", "4", "5", "6", "7", "8", "9" >>

IsDigitChar(c) == \E k \in 1 .. 10 : DecimalChars[k] = c

\* c - '0' for the characters of the model ('+' 43, '-' 45, '/' 47, '0' 48,
\* ':' 58).
CharMinusZero(c) ==
    CASE c = "+" -> -5
      [] c = "-" -> -3
      [] c = "/" -> -1
      [] c = ":" -> 10
      [] OTHER   -> (CHOOSE k \in 1 .. 10 : DecimalChars[k] = c) - 1

\* static_cast<char>('0' + remainder)
DigitChar(r) == DecimalChars[r + 1]

RECURSIVE StripZeros(_)
StripZeros(str) ==
    IF Len(str) > 1 /\ str[1] = "0" THEN StripZeros(Tail(str)) ELSE str

\* for (char c : str) result = result * 10 + BigInt(c - '0');
RECURSIVE ParseFold(_, _, _)
ParseFold(str, k, result) ==
    IF k > Len(str) THEN [ret |-> TRUE, val |-> result]
    ELSE LET r == OpAdd(OpMul(result, BigIntInt(10)),
                        BigIntInt(CharMinusZero(str[k])))
         IN  IF r.ret THEN ParseFold(str, k + 1, r.val) ELSE r

\* BigInt(const std::string &s); s[0] of an empty string is '\0'.
BigIntString(s) ==
    LET neg == Len(s) > 0 /\ s[1] = "-"
        str == StripZeros(IF neg THEN Tail(s) ELSE s)
        r   == ParseFold(str, 1, BigIntInt(0))
    IN  [ret |-> r.ret, val |-> [digits |-> r.val.digits, negative |-> neg]]

RECURSIVE SmallLoop(_, _, _, _)
SmallLoop(d, i, divisor, remainder) ==
    IF ~(i >= 0) THEN [digits |-> d, remainder |-> remainder]
    ELSE LET current == remainder * Base + d[i + 1]
         IN  SmallLoop([d EXCEPT ![i + 1] = (current \div divisor) % Base],
                       i - 1, divisor, current % divisor)

\* divmod_small: the object after the call, and the value returned.
divmod_small(x, divisor) ==
    LET r == SmallLoop(x.digits, Len(x.digits) - 1, divisor, 0)
    IN  [self |-> trim([x EXCEPT !.digits = r.digits]), remainder |-> r.remainder % Base]

RECURSIVE Reverse(_)
Reverse(s) == IF s = << >> THEN << >> ELSE Append(Reverse(Tail(s)), Head(s))

RECURSIVE DecimalLoop(_, _)
DecimalLoop(temp, s) ==
    IF isZero(temp) THEN s
    ELSE LET r == divmod_small(temp, 10)
         IN  DecimalLoop(r.self, Append(s, DigitChar(r.remainder)))

\* operator<<(std::ostream &, const BigInt &): the characters written.
ToString(x) ==
    IF isZero(x) THEN << "0" >>
    ELSE (IF x.negative THEN << "-" >> ELSE << >>) \o Reverse(DecimalLoop(abs(x), << >>))

---------------------------------------------------------------------------
(* Division and modulo *)

RECURSIVE BitLength(_)
BitLength(w) == IF w = 0 THEN 0 ELSE 1 + BitLength(w \div 2)

\* __builtin_clz on a word (never called with 0 here: the divisor is not zero
\* and its most significant word is not zero).
Clz(w) == WordBits - BitLength(w)

\* int norm = 32 - __builtin_clz(divisor.digits.back());
Norm(divisor) == WordBits - Clz(Back(divisor.digits))

\* A zero test that knows the empty vector only.
DivisorIsZero_m(b) == b.digits = << >>

\* if (b.isZero()) throw
DivisorIsZero(b) == isZero(b)

\* quotient.negative = a.negative != b.negative;
QuotientSign(a, b) == a.negative # b.negative

\* The remainder given the sign of the divisor.
RemainderSign_m(a, b) == b.negative

\* remainder.negative = a.negative;
RemainderSign(a, b) == a.negative

\* divisor * static_cast<uint32_t>(qguess), then mult <<= 32 * i
Trial(divisor, qguess, i) ==
    OpShl(OpMul(divisor, BigIntUint32(qguess % Base)), WordBits * i)

\* while (remainder < mult) { --qguess; ... }
RECURSIVE Correct(_, _, _, _)
Correct(remainder, divisor, qguess, i) ==
    IF OpLess(remainder, Trial(divisor, qguess, i))
    THEN Correct(remainder, divisor, qguess - 1, i)
    ELSE qguess

\* remainder.digits[k]: the word, or any word when k is past the end (the
\* read of operator[] is then undefined and yields whatever lies there).
ReadWord(d, k) == IF k < Len(d) THEN {d[k + 1]} ELSE Word

\* if (!b.isZero()) in main
MainDivides(b) == ~isZero(b)

---------------------------------------------------------------------------
(* The program state *)

VARIABLES
    reg,      \* the BigInt objects a and b of the program
    pc,       \* "idle", "call" (inside operator+ / operator-), "divmod", "crashed"
    frame,    \* the running activation of operator+ / operator-
    dst,      \* where the running operation's result goes: "a", "b", "out"
    dm,       \* the activation of divmod: parameters, locals, outcome
    err,      \* the exception the last operation threw, "none" if it threw none
    text,     \* the strings the last operation parsed: none, or one
    ops       \* arithmetic operations started so far

vars == << reg, pc, frame, dst, dm, err, text, ops >>

Regs == {"a", "b"}

\* Inputs of the constructors and of the shifts.
Texts ==
    { << >>, << "-" >>, << "0" >>, << "-", "0" >>, << "3" >>, << "-", "5" >>,
      << "0", "7" >>, << "1", ":" >>, << "/", "0" >> }
Ints == {-5, 0, 1, Base \div 2}
Int64s == {Base * (Base \div 2), -(Base + 1)}
ShiftAmounts == {0, 1, WordBits, 2 * WordBits + 1}

Fits(x) == Len(x.digits) <= MaxWords

NoDivMod ==
    [a |-> BigIntDefault, b |-> BigIntDefault, quotient |-> BigIntDefault,
     remainder |-> BigIntDefault, divisor |-> BigIntDefault, norm |-> 0, i |-> 0,
     status |-> "none", caller |-> "none", want |-> "/"]

Store(d, v) == reg' = IF d \in Regs THEN [reg EXCEPT ![d] = v] ELSE reg

\* What every operation other than divmod leaves behind.
Plain == /\ frame' = NoCall
         /\ dst' = "out"
         /\ dm' = NoDivMod
         /\ err' = "none"

Init ==
    /\ reg = [r \in Regs |-> BigIntDefault]
    /\ pc = "idle"
    /\ frame = NoCall
    /\ dst = "out"
    /\ dm = NoDivMod
    /\ err = "none"
    /\ text = << >>
    /\ ops = 0

---------------------------------------------------------------------------
(* Construction *)

\* std::cin >> x, that is x = BigInt(s).  The constructor throws nothing; it
\* ends the process when its nested additions exhaust the stack.
ReadString(d, s) ==
    /\ pc = "idle"
    /\ ops = 0
    /\ LET p == BigIntString(s)
       IN  /\ pc' = IF p.ret THEN "idle" ELSE "crashed"
           /\ IF p.ret THEN Store(d, p.val) ELSE reg' = reg
    /\ text' = << s >>
    /\ Plain
    /\ UNCHANGED ops

FromInt(d, v) ==
    /\ pc = "idle"
    /\ ops = 0
    /\ Store(d, BigIntInt(v))
    /\ text' = << >>
    /\ Plain
    /\ UNCHANGED << pc, ops >>

FromInt64(d, v) ==
    /\ pc = "idle"
    /\ ops = 0
    /\ Store(d, BigIntInt64(v))
    /\ text' = << >>
    /\ Plain
    /\ UNCHANGED << pc, ops >>

---------------------------------------------------------------------------
(* Operations that call neither operator+ nor operator- *)

Unary(d, v) ==
    /\ pc = "idle"
    /\ ops < MaxOps
    /\ Fits(v)
    /\ Store(d, v)
    /\ ops' = ops + 1
    /\ text' = << >>
    /\ Plain
    /\ UNCHANGED pc

\* a = -x
Neg(l) == Unary("a", Negate(reg[l]))

\* a = a * b
Mul == Unary("a", OpMul(reg["a"], reg["b"]))

\* a = a & b
And == Unary("a", OpAnd(reg["a"], reg["b"]))

\* a = a | b
Or == Unary("a", OpOr(reg["a"], reg["b"]))

\* a <<= k
Shl(k) == Unary("a", OpShl(reg["a"], k))

\* a >>= k
Shr(k) == Unary("a", OpShr(reg["a"], k))

---------------------------------------------------------------------------
(* operator+ and operator-, one activation at a time *)

Enter(op, d) ==
    /\ pc = "idle"
    /\ ops < MaxOps
    /\ Len(reg["a"].digits) < MaxWords
    /\ Len(reg["b"].digits) < MaxWords
    /\ pc' = "call"
    /\ frame' = Call(op, reg["a"], reg["b"])
    /\ dst' = d
    /\ dm' = NoDivMod
    /\ err' = "none"
    /\ text' = << >>
    /\ ops' = ops + 1
    /\ UNCHANGED reg

\* a = a + b
Add == Enter("+", "a")

\* a = a - b
Sub == Enter("-", "a")

\* return *this - (-other);  return *this + (-other);  return -(other - *this);
CallStep ==
    /\ pc = "call"
    /\ ~IsDirect(frame)
    /\ frame' = Delegate(frame)
    /\ UNCHANGED << reg, pc, dst, dm, err, text, ops >>

\* The same-sign loops, and the pending unary minus of the callers.
CallReturn ==
    /\ pc = "call"
    /\ IsDirect(frame)
    /\ Store(dst, DirectResult(frame))
    /\ pc' = "idle"
    /\ frame' = NoCall
    /\ dst' = "out"
    /\ UNCHANGED << dm, err, text, ops >>

---------------------------------------------------------------------------
(* operator/, operator% and divmod *)

\* divmod up to its loop (lines 374-403).
DivModEnter(a, b, caller, want, d) ==
    LET base == [NoDivMod EXCEPT !.a = a, !.b = b, !.caller = caller, !.want = want]
        ret(q, r) ==
            /\ dm' = [base EXCEPT !.quotient = q, !.remainder = r, !.status = "returned"]
            /\ Store(d, IF want = "/" THEN q ELSE r)
            /\ pc' = "idle"
            /\ err' = "none"
            /\ dst' = "out"
    IN  IF DivisorIsZero(b)
        THEN /\ dm' = [base EXCEPT !.status = "threw"]
             /\ err' = "DivisionByZero"
             /\ pc' = "idle"
             /\ dst' = "out"
             /\ UNCHANGED reg
        ELSE IF isZero(a) THEN ret(BigIntInt(0), BigIntInt(0))
        ELSE IF OpLess(abs(a), abs(b)) THEN ret(BigIntInt(0), a)
        ELSE LET norm      == Norm(abs(b))
                 divisor   == IF norm # 0 THEN OpShl(abs(b), norm) ELSE abs(b)
                 remainder == IF norm # 0 THEN OpShl(abs(a), norm) ELSE abs(a)
                 n         == Len(remainder.digits)
                 m         == Len(divisor.digits)
             IN  /\ dm' = [base EXCEPT !.quotient  = [digits   |-> Zeros(n - m + 1),
                                                      negative |-> FALSE],
                                       !.remainder = remainder,
                                       !.divisor   = divisor,
                                       !.norm      = norm,
                                       !.i         = n - m,
                                       !.status    = "running"]
                 /\ pc' = "divmod"
                 /\ err' = "none"
                 /\ dst' = d
                 /\ UNCHANGED reg

\* a = a / b and a = a % b of any two objects.
Divide(want) ==
    /\ pc = "idle"
    /\ ops < MaxOps
    /\ DivModEnter(reg["a"], reg["b"], "client", want, "a")
    /\ ops' = ops + 1
    /\ text' = << >>
    /\ frame' = NoCall

\* main: if (!b.isZero()) { ... a / b ... a % b ... }
MainDivide(want) ==
    /\ pc = "idle"
    /\ ops < MaxOps
    /\ MainDivides(reg["b"])
    /\ DivModEnter(reg["a"], reg["b"], "main", want, "out")
    /\ ops' = ops + 1
    /\ text' = << >>
    /\ frame' = NoCall

\* One iteration of the quotient loop (lines 404-425).
DivIter ==
    /\ pc = "divmod"
    /\ dm.i >= 0
    /\ LET i   == dm.i
           m   == Len(dm.divisor.digits)
           rem == dm.remainder
           r_hi == IF i + m < Len(rem.digits) THEN rem.digits[i + m + 1] ELSE 0
       IN  \E r_lo \in ReadWord(rem.digits, i + m - 1) :
             LET numerator   == r_hi * Base + r_lo
                 denominator == Back(dm.divisor.digits)
                 q0          == numerator \div denominator
                 qguess      == Correct(rem, dm.divisor,
                                        IF q0 > WordMax THEN WordMax ELSE q0, i)
                 diff        == OpSub(rem, Trial(dm.divisor, qguess, i))
             IN  /\ dm' = [dm EXCEPT !.quotient.digits[i + 1] = qguess % Base,
                                     !.remainder = diff.val,
                                     !.i = i - 1,
                                     !.status = IF diff.ret THEN "running" ELSE "aborted"]
                 /\ pc' = IF diff.ret THEN "divmod" ELSE "crashed"
    /\ UNCHANGED << reg, frame, dst, err, text, ops >>

\* A build that checks operator[] ends the process at the read past the end.
DivAbort ==
    /\ pc = "divmod"
    /\ dm.i >= 0
    /\ dm.i + Len(dm.divisor.digits) - 1 >= Len(dm.remainder.digits)
    /\ dm' = [dm EXCEPT !.status = "aborted"]
    /\ pc' = "crashed"
    /\ UNCHANGED << reg, frame, dst, err, text, ops >>

\* After the loop (lines 426-432).
DivFinish ==
    /\ pc = "divmod"
    /\ dm.i < 0
    /\ LET q0 == trim(dm.quotient)
           r0 == IF dm.norm # 0 THEN OpShr(dm.remainder, dm.norm) ELSE dm.remainder
           q  == trim([q0 EXCEPT !.negative = QuotientSign(dm.a, dm.b)])
           r  == trim([r0 EXCEPT !.negative = RemainderSign(dm.a, dm.b)])
       IN  /\ dm' = [dm EXCEPT !.quotient = q, !.remainder = r, !.status = "returned"]
           /\ Store(dst, IF dm.want = "/" THEN q ELSE r)
    /\ pc' = "idle"
    /\ dst' = "out"
    /\ UNCHANGED << frame, err, text, ops >>

---------------------------------------------------------------------------

Next ==
    \/ \E d \in Regs, s \in Texts : ReadString(d, s)
    \/ \E d \in Regs, v \in Ints : FromInt(d, v)
    \/ \E d \in Regs, v \in Int64s : FromInt64(d, v)
    \/ \E l \in Regs : Neg(l)
    \/ Mul
    \/ And
    \/ Or
    \/ \E k \in ShiftAmounts : Shl(k)
    \/ \E k \in ShiftAmounts : Shr(k)
    \/ Add
    \/ Sub
    \/ CallStep
    \/ CallReturn
    \/ \E want \in {"/", "%"} : Divide(want)
    \/ \E want \in {"/", "%"} : MainDivide(want)
    \/ DivIter
    \/ DivAbort
    \/ DivFinish

Spec == Init /\ [][Next]_vars

\* A call that has started keeps running: the program is one thread.
FairSpec == Spec /\ WF_vars(CallStep) /\ WF_vars(CallReturn)

---------------------------------------------------------------------------
(* The integers the objects stand for *)

RECURSIVE Mag(_)
Mag(d) == IF d = << >> THEN 0 ELSE Head(d) + Base * Mag(Tail(d))

IntVal(x) == IF x.negative THEN -Mag(x.digits) ELSE Mag(x.digits)

Abs(v) == IF v < 0 THEN -v ELSE v

\* v / w rounded toward zero, w # 0
TruncDiv(v, w) ==
    IF (v < 0) = (w < 0) THEN Abs(v) \div Abs(w) ELSE -(Abs(v) \div Abs(w))

\* The text is not an optional '-' followed by one or more decimal digits.
Malformed(s) ==
    LET body == IF Len(s) > 0 /\ s[1] = "-" THEN Tail(s) ELSE s
    IN  body = << >> \/ \E k \in 1 .. Len(body) : ~IsDigitChar(body[k])

---------------------------------------------------------------------------
(* Properties *)

\* C1: every call of operator+ and of operator- returns: an activation that
\* has started, whatever the signs of its operands and also when one of them
\* is zero, reaches a same-sign case and hands back its result.
C1_AddSubReturns == (pc = "call") ~> (pc = "idle")

\* C2: when divmod(a, b) has returned quotient and remainder, the library's
\* own b * quotient + remainder returns a value that operator== reports equal
\* to a, and the magnitude of the remainder is less than that of b.
C2_DivisionContract ==
    dm.status = "returned" =>
        LET sum == OpAdd(OpMul(dm.b, dm.quotient), dm.remainder)
        IN  /\ sum.ret
            /\ OpEq(sum.val, dm.a)
            /\ Mag(dm.remainder.digits) < Mag(dm.b.digits)

\* C3: divmod is truncating division: the quotient it returns is a / b
\* rounded toward zero, the remainder is a - b * quotient, a non-zero quotient
\* carries the XOR of the operand signs, a non-zero remainder the sign of the
\* dividend, and operands of equal magnitude give quotient 1 or -1 and
\* remainder 0.
C3_TruncatingDivision ==
    dm.status = "returned" =>
        LET av == IntVal(dm.a)
            bv == IntVal(dm.b)
            q  == IntVal(dm.quotient)
            r  == IntVal(dm.remainder)
        IN  /\ bv # 0
            /\ q = TruncDiv(av, bv)
            /\ r = av - bv * q
            /\ q # 0 => (dm.quotient.negative <=> (dm.a.negative # dm.b.negative))
            /\ r # 0 => (dm.remainder.negative <=> dm.a.negative)
            /\ Abs(av) = Abs(bv) => (Abs(q) = 1 /\ r = 0)

\* -5 divided by 3 through the long-division loop: quotient -1, remainder -2.
C3_Witness ==
    /\ dm.status = "returned"
    /\ IntVal(dm.a) = -5 /\ IntVal(dm.b) = 3
    /\ IntVal(dm.quotient) = -1 /\ IntVal(dm.remainder) = -2

\* C4: sign canonicality (I2): an object whose magnitude is zero is never
\* negative, however it was parsed, converted or computed.
C4_ZeroIsNotNegative ==
    \A r \in Regs : Mag(reg[r].digits) = 0 => ~reg[r].negative

\* C5: canonical form (I1): no object has a most significant zero word, and
\* two objects that stand for the same integer have the same word sequence
\* (zero has one representation).
C5_CanonicalForm ==
    /\ \A r \in Regs :
         Len(reg[r].digits) > 1 => Back(reg[r].digits) # 0
    /\ Mag(reg["a"].digits) = Mag(reg["b"].digits) => reg["a"].digits = reg["b"].digits

\* C6: round trip: parsing the decimal text that the output operator writes
\* for an object gives an object that operator== reports equal to it.
C6_RoundTrip ==
    \A r \in Regs :
        LET back == BigIntString(ToString(reg[r]))
        IN  back.ret /\ OpEq(back.val, reg[r])

\* C7: parsing a text that, after an optional leading '-', is empty or holds
\* a character that is no decimal digit fails with InvalidFormat.
C7_InvalidFormat ==
    \A k \in 1 .. Len(text) : Malformed(text[k]) => err = "InvalidFormat"

\* C8: divmod throws DivisionByZero exactly when the divisor stands for zero
\* (empty or single zero word, either sign flag), for every dividend, with
\* quotient and remainder still as constructed; main asks for a / b and a % b
\* only when b is not zero and so never meets the exception.
C8_DivisionByZero ==
    /\ dm.status # "none" => ((dm.status = "threw") <=> (Mag(dm.b.digits) = 0))
    /\ (err = "DivisionByZero") <=> (dm.status = "threw")
    /\ dm.status = "threw" =>
         (dm.quotient = BigIntDefault /\ dm.remainder = BigIntDefault)
    /\ dm.caller = "main" => dm.status # "threw"

\* Zero divided by the negative single zero word: the exception.
C8_Witness ==
    /\ dm.status = "threw"
    /\ err = "DivisionByZero"
    /\ isZero(dm.a)
    /\ dm.b = [digits |-> << 0 >>, negative |-> TRUE]

\* C9: in the long-division loop the shifted divisor's most significant word
\* has its highest bit set, and norm is the number of leading zero bits of
\* the divisor's most significant word, between 0 and the word width less 1.
C9_NormalizedDivisor ==
    pc = "divmod" =>
        /\ Back(dm.divisor.digits) >= Base \div 2
        /\ dm.norm = Clz(Back(dm.b.digits))
        /\ dm.norm \in 0 .. WordBits - 1

\* C10: at the head of every iteration i of the quotient loop the index
\* i + m - 1 it reads lies inside the running remainder's word sequence.
C10_ReadInBounds ==
    (pc = "divmod" /\ dm.i >= 0) =>
        dm.i + Len(dm.divisor.digits) - 1 < Len(dm.remainder.digits)

=============================================================================
